---- MODULE Spec2Model ----
(***************************************************************************)
(* Case lifecycle and status linkage of the illegal-construction case       *)
(* management service (services/case_service.py, db/crud.py,                *)
(* models/schemas.py, models/sqlalchemy_model.py).                          *)
(*                                                                          *)
(* The persistent store is the shared state.  Every request is handled by   *)
(* a worker; a handler is a sequence of store calls, and every crud call    *)
(* ends with its own db.commit(), so each store call is one atomic step     *)
(* and the steps of different workers interleave.                           *)
(*                                                                          *)
(* Strings that are computed on (case numbers) are sequences of decimal     *)
(* digits; status labels are opaque strings, written in ASCII:              *)
(*   "jinxingzhong" for the default status, "xianqichaichu" and             *)
(*   "yezhuqiangjian" for two snapshot labels used by the tests.            *)
(* The old and the revised identifiers of the source name the same things:  *)
(* DemolitionCreate = EnforcementActionCreate (schemas.py 267-271),         *)
(* DemolitionProgress = the enforcement_actions table, action_data.status   *)
(* = the record's status_snapshot, BuildingViolationProgress = the          *)
(* building-progress table, GeographicalLocation = Geolocation,             *)
(* create_case_service = create_case.                                       *)
(* crud.create_violation_case is written for a creation input without a     *)
(* case_number field (its docstring); the specifications create cases from  *)
(* inputs of that shape, except SpecPlaceholder, whose inputs carry the     *)
(* field as the present schema declares it.                                 *)
(***************************************************************************)
EXTENDS Integers, Sequences, FiniteSets, TLC

VARIABLES
    year,                 \* datetime.now().year
    cases,                \* table violation_cases, row id = index
    enforcement_actions,  \* table enforcement_actions, row id = index
    building_progresses,  \* table of building-progress records, row id = index
    clock,                \* the store's now(), stamps created_at
    pc,                   \* per worker: the store call its handler makes next
    req,                  \* per worker: the handler's local variables
    response,             \* the response returned by the last step, if it returned one
    linked,               \* history: the records whose snapshot was written to their case
    file_archives,        \* table file_archives, row id = index
    geolocations,         \* table geolocations, row id = index
    seeded                \* history: how many rows of violation_cases were stored directly

vars == <<year, cases, enforcement_actions, building_progresses, clock, pc, req,
          response, linked, file_archives, geolocations, seeded>>

\* What only the archive and the location operations touch, and the count of
\* the rows stored directly, which no handler changes
side_tables == <<file_archives, geolocations, seeded>>

store == <<cases, enforcement_actions, building_progresses>>

----------------------------------------------------------------------------
(* Bounds of the model *)

MaxCases == 2
MaxEvents == 2
MaxYearSteps == 1
MaxArchives == 2
MaxLocations == 1
MaxSeeded == 2

FirstYear == 2025

Workers == {"w1", "w2"}

DefaultStatus == "jinxingzhong"
Snapshots == {"xianqichaichu", "yezhuqiangjian"}
CreateStatuses == {DefaultStatus, "jiean"}

AreaFields == {"land_area", "building_area", "violation_area"}

\* Area triples <<land_area, building_area, violation_area>> sent by clients.
AreaInputs ==
    { <<0, 0, 0>>, <<2, 3, 1>>, <<2, 1, 0>>, <<2, 0, 0>>,
      <<-1, 0, 0>>, <<0, -1, 0>>, <<2, 1, -1>>, <<-1, -1, 0>> }

\* A creation input.  case_number is <<>> when the input has no such field (the
\* shape crud.create_violation_case is written for); geolocation_id names the
\* location, registered beforehand, that the case is opened against.
CaseCreate(areas, st) ==
    [land_area |-> areas[1], building_area |-> areas[2], violation_area |-> areas[3],
     status |-> st, case_number |-> <<>>, geolocation_id |-> 1]

PlainCaseInputs == {CaseCreate(<<2, 3, 1>>, DefaultStatus)}
StatusCaseInputs == {CaseCreate(<<2, 3, 1>>, st) : st \in CreateStatuses}
AreaCaseInputs == {CaseCreate(a, DefaultStatus) : a \in AreaInputs}

\* The status of a request body that has no "status" key
Unset == "unset"

\* Request bodies without a status, for a case at each registered location
UnsetStatusPayloads(locs) ==
    {[CaseCreate(<<2, 3, 1>>, Unset) EXCEPT !.geolocation_id = g] : g \in DOMAIN locs}

\* Request bodies that carry a case_number of the client's: a placeholder, and
\* a number of the shape the service assigns
ClientNumbers == {<<9, 9>>, <<2, 0, 2, 5, 0, 0, 0, 1>>}
PlaceholderPayloads ==
    {[CaseCreate(<<2, 3, 1>>, Unset) EXCEPT !.case_number = n] : n \in ClientNumbers}

\* The bodies of POST /api/locations/
LocationInputs == {[address |-> "wensanlu"]}

\* The pages asked of GET /api/cases/: <<skip, limit>>
Pages == {<<0, 100>>, <<1, 1>>}

\* The numbers of cases stored directly, as the tests store their existing
\* cases: of the year before, of the first year (the first number, one beyond a
\* gap, the last two of four digits) and of the year after
SeededNumbers ==
    { <<2, 0, 2, 4, 0, 0, 0, 7>>,
      <<2, 0, 2, 5, 0, 0, 0, 1>>, <<2, 0, 2, 5, 0, 0, 0, 5>>,
      <<2, 0, 2, 5, 9, 9, 9, 8>>, <<2, 0, 2, 5, 9, 9, 9, 9>>,
      <<2, 0, 2, 6, 0, 0, 0, 3>> }

\* models.ViolationCase(case_number=..., status="进行中", land_area=0, ...)
SeededCase(number) ==
    [case_number |-> number, status |-> DefaultStatus, land_area |-> 0,
     building_area |-> 0, violation_area |-> 0, geolocation_id |-> 1,
     created_at |-> FirstYear]

\* The stores of up to MaxSeeded such cases, in every row order; the unique
\* index keeps their numbers distinct
SeededStores ==
    UNION { { [i \in 1..n |-> SeededCase(numbers[i])] :
                numbers \in { f \in [1..n -> SeededNumbers] :
                                 \A i, j \in 1..n : f[i] = f[j] => i = j } } :
            n \in 0..MaxSeeded }

\* The case ids clients send: the ids of the existing cases and one that exists not (yet)
CaseIds(cs) == 1..(Len(cs) + 1)

----------------------------------------------------------------------------
(* Strings of digits *)

RECURSIVE Digits(_)
Digits(n) == IF n < 10 THEN <<n>> ELSE Digits(n \div 10) \o <<n % 10>>

RECURSIVE ParseInt(_)
ParseInt(s) ==
    IF Len(s) = 0 THEN 0
    ELSE 10 * ParseInt(SubSeq(s, 1, Len(s) - 1)) + s[Len(s)]

RECURSIVE Zeros(_)
Zeros(n) == IF n <= 0 THEN <<>> ELSE <<0>> \o Zeros(n - 1)

\* The sequence is cut to its last four digits
Format04d_last4(n) ==
    Zeros(4 - Len(Digits(n % 10000))) \o Digits(n % 10000)

\* f"{n:04d}"
Format04d(n) == Zeros(4 - Len(Digits(n))) \o Digits(n)

\* s LIKE 'prefix%'
Like(s, prefix) ==
    /\ Len(s) >= Len(prefix)
    /\ SubSeq(s, 1, Len(prefix)) = prefix

\* a < b in the order of ORDER BY on a string column
RECURSIVE StrLess(_, _)
StrLess(a, b) ==
    IF Len(b) = 0 THEN FALSE
    ELSE IF Len(a) = 0 THEN TRUE
    ELSE IF a[1] # b[1] THEN a[1] < b[1]
    ELSE StrLess(Tail(a), Tail(b))

----------------------------------------------------------------------------
(* Numbering: services/case_service.py generate_case_number *)

\* The query has no filter on the year
NumbersLike_all(cs, current_year) == {cs[i].case_number : i \in DOMAIN cs}

\* The numbers of the rows that .filter(case_number.like(f"{current_year}%")) keeps.
NumbersLike(cs, current_year) ==
    {cs[i].case_number : i \in {j \in DOMAIN cs : Like(cs[j].case_number, current_year)}}

\* The order is ascending: the first row is the least number
LastNumber_least(numbers) ==
    CHOOSE m \in numbers : \A o \in numbers : ~StrLess(o, m)

\* .order_by(case_number.desc()).first() over a non-empty set of numbers
LastNumber(numbers) ==
    CHOOSE m \in numbers : \A o \in numbers : ~StrLess(m, o)

\* The sequence is sliced one character early: case_number[3:]
generate_case_number_slice3(cs, y) ==
    LET current_year == Digits(y)
        numbers == NumbersLike(cs, current_year)
    IN  IF numbers = {} THEN current_year \o <<0, 0, 0, 1>>
        ELSE LET last_case == LastNumber(numbers)
                 last_seq_str == SubSeq(last_case, 4, Len(last_case))
                 new_seq == ParseInt(last_seq_str) + 1
             IN  current_year \o Format04d(new_seq)

generate_case_number(cs, y) ==
    LET current_year == Digits(y)
        numbers == NumbersLike(cs, current_year)
    IN  IF numbers = {} THEN current_year \o <<0, 0, 0, 1>>
        ELSE LET last_case == LastNumber(numbers)
                 last_seq_str == SubSeq(last_case, 5, Len(last_case))
                 new_seq == ParseInt(last_seq_str) + 1
             IN  current_year \o Format04d(new_seq)

----------------------------------------------------------------------------
(* Validation: models/schemas.py ViolationCaseBase, services/case_service.py *)

\* The field validator accepts everything
check_positive_number_off(v) == TRUE

\* TRUE when the field validator accepts the value
check_positive_number(v) == v >= 0

\* The fields the field validators reject
FieldErrors(case_data) ==
    {f \in AreaFields : ~check_positive_number(case_data[f])}

\* The model validator accepts everything
check_area_logic_off(case_data) == TRUE

\* TRUE when the model validator accepts the input
check_area_logic(case_data) ==
    ~(/\ case_data.land_area > 0
      /\ case_data.building_area > 0
      /\ case_data.land_area > case_data.building_area)

\* The status field has no default
ViolationCaseCreate_nodefault(payload) == payload

\* schemas.ViolationCaseCreate(**payload): a status left out takes the default
ViolationCaseCreate(payload) ==
    [payload EXCEPT !.status = IF @ = Unset THEN DefaultStatus ELSE @]

\* TRUE when create_case raises HTTPException(400)
AreaDefence(case_data) == case_data.land_area > case_data.building_area

----------------------------------------------------------------------------
(* Store calls: db/crud.py *)

\* get_case: the row id, or 0 for None
get_case(cs, case_id) == IF case_id \in DOMAIN cs THEN case_id ELSE 0

\* The existence check is left out
ActionCaseMissing_never(cs, case_id) == FALSE

\* if not case: raise HTTPException(404) in the two append handlers
ActionCaseMissing(cs, case_id) == get_case(cs, case_id) = 0

\* The column has no unique index
UniqueViolation_none(cs, case_number) == FALSE

\* The unique index on violation_cases.case_number rejects the insert
UniqueViolation(cs, case_number) ==
    \E i \in DOMAIN cs : cs[i].case_number = case_number

\* The update has no filter on the case id
StatusWrite_all(cs, case_id, new_status) ==
    [i \in DOMAIN cs |-> [cs[i] EXCEPT !.status = new_status]]

\* The status assignment is lost (no commit)
StatusWrite_lost(cs, case_id, new_status) == cs

\* db_case.status = new_status; db.commit()
StatusWrite(cs, case_id, new_status) ==
    [i \in DOMAIN cs |->
        IF i = case_id THEN [cs[i] EXCEPT !.status = new_status] ELSE cs[i]]

\* "case_number" in case.model_dump(): ViolationCase(**case_data, case_number=...)
\* is then given the keyword twice and raises TypeError
DuplicateKeyword(case_data) == case_data.case_number # <<>>

\* db.add(row); db.commit()
InsertRow(table, row) == Append(table, row)

\* The relationship loads the rows of every case
RowsOfCase_all(table, case_id) == table

\* The rows of a progress table that a case's relationship loads, in row order
RowsOfCase(table, case_id) ==
    SelectSeq(table, LAMBDA r : r.case_id = case_id)

----------------------------------------------------------------------------
(* Archive compliance: the document rules and check_archive_status.        *)
(* File names and document names are sequences of characters; the names of  *)
(* the rule table are written short:                                        *)
(*   <<"z","l">>       the decision to stop the illegal act (xianqichaichu) *)
(*   <<"q","c","b">>   the on-site record of the forced demolition          *)
(*   <<"q","c","t">>   the on-site pictures of the forced demolition        *)
(* "qiangzhichaichu" is the stage label of the forced demolition.           *)

ZeLingJueDingShu == <<"z", "l">>
XianChangBiLu == <<"q", "c", "b">>
XianChangTuPian == <<"q", "c", "t">>

\* The static table: stage label -> required document names, in declared order
REQUIRED_DOC_RULES ==
    ("xianqichaichu" :> <<ZeLingJueDingShu>>)
        @@ ("qiangzhichaichu" :> <<XianChangBiLu, XianChangTuPian>>)

\* The file names of the uploaded archives
FileNames ==
    { <<"e", "q", "c", "t", "j">>,      \* evidence_<on-site pictures>_01.jpg
      <<"y", "q", "c", "b", "p">>,      \* 2025_<on-site record>.pdf
      <<"q", "c", "B">>,                \* the record's name in another case of letters
      <<"z", "l">> }                    \* the decision, named exactly as the rule

\* A file that holds the decision, named 2025_<decision>.pdf
DecisionFile == <<"y", "z", "l", "p">>

\* The stages cases are created in for the archive check: the two of the rule
\* table and the default status, which has no rule
StageCaseInputs ==
    {CaseCreate(<<2, 3, 1>>, st) : st \in {"xianqichaichu", "qiangzhichaichu", DefaultStatus}}

\* doc in file_name: containment as a contiguous, case-sensitive substring
Contains(file_name, doc) ==
    \E i \in 0..(Len(file_name) - Len(doc)) :
        SubSeq(file_name, i + 1, i + Len(doc)) = doc

\* A stage without a rule is held to the rule of the first stage
RequiredDocs_fallback(stage) ==
    IF stage \in DOMAIN REQUIRED_DOC_RULES THEN REQUIRED_DOC_RULES[stage]
    ELSE REQUIRED_DOC_RULES["xianqichaichu"]

\* The rule table's .get(stage, [])
RequiredDocs(stage) ==
    IF stage \in DOMAIN REQUIRED_DOC_RULES THEN REQUIRED_DOC_RULES[stage] ELSE <<>>

\* The archives of every case
archives_of_all(archives, case_id) == archives

\* ViolationCase.archives: the rows of file_archives whose case_id is the case's
archives_of(archives, case_id) ==
    SelectSeq(archives, LAMBDA a : a.case_id = case_id)

\* The required names that no file of the case contains, in declared order
MissingDocs(stage, files) ==
    SelectSeq(RequiredDocs(stage),
              LAMBDA doc : ~(\E k \in DOMAIN files : Contains(files[k].file_name, doc)))

\* The result of check_archive_status for an existing case
ArchiveCheckResult(cs, archives, case_id) ==
    LET stage == cs[case_id].status
        missing == MissingDocs(stage, archives_of(archives, case_id))
    IN  [current_stage |-> stage,
         is_compliant |-> (missing = <<>>),
         missing_docs |-> missing]

----------------------------------------------------------------------------
(* Handlers *)

NoReq ==
    [op |-> "none", case_data |-> <<>>, new_number |-> <<>>, case_id |-> 0,
     status |-> "", table |-> "", rec |-> 0]

NoResponse ==
    [op |-> "none", outcome |-> "none", fields |-> {}, case_data |-> <<>>,
     case_id |-> 0, body |-> <<>>]

Respond(op, outcome, fields, case_data, case_id, body) ==
    response' = [op |-> op, outcome |-> outcome, fields |-> fields,
                 case_data |-> case_data, case_id |-> case_id, body |-> body]

Idle(w) == pc[w] = "idle"
AllIdle == \A w \in Workers : Idle(w)

\* Rows inserted by handlers plus the inserts that handlers in flight can still make
PendingCases == Cardinality({w \in Workers : pc[w] = "create_violation_case"})
PendingEvents == Cardinality({w \in Workers : pc[w] = "create_action"})
RoomForCase == (Len(cases) - seeded) + PendingCases < MaxCases
RoomForEvent ==
    Len(enforcement_actions) + Len(building_progresses) + PendingEvents < MaxEvents

Init ==
    /\ year = FirstYear
    /\ cases = <<>>
    /\ enforcement_actions = <<>>
    /\ building_progresses = <<>>
    /\ clock = 1
    /\ pc = [w \in Workers |-> "idle"]
    /\ req = [w \in Workers |-> NoReq]
    /\ response = NoResponse
    /\ linked = {}
    /\ file_archives = <<>>
    /\ geolocations = <<>>
    /\ seeded = 0

\* The service starts on a store that holds cases already
InitNumbering ==
    /\ year = FirstYear
    /\ cases \in SeededStores
    /\ seeded = Len(cases)
    /\ enforcement_actions = <<>>
    /\ building_progresses = <<>>
    /\ clock = 1
    /\ pc = [w \in Workers |-> "idle"]
    /\ req = [w \in Workers |-> NoReq]
    /\ response = NoResponse
    /\ linked = {}
    /\ file_archives = <<>>
    /\ geolocations = <<>>

\* The year of datetime.now() moves on.
NewYear ==
    /\ year < FirstYear + MaxYearSteps
    /\ year' = year + 1
    /\ response' = NoResponse
    /\ UNCHANGED <<cases, enforcement_actions, building_progresses, clock, pc, req, linked>>
    /\ UNCHANGED side_tables

\* POST /api/cases/: request validation, then create_case up to the number it generates.
create_case(w, case_data) ==
    /\ Idle(w)
    /\ IF FieldErrors(case_data) # {}
         THEN /\ Respond("create_case", "validation_error", FieldErrors(case_data),
                         case_data, 0, <<>>)
              /\ UNCHANGED <<pc, req>>
       ELSE IF ~check_area_logic(case_data)
         THEN /\ Respond("create_case", "validation_error", {"area_logic"},
                         case_data, 0, <<>>)
              /\ UNCHANGED <<pc, req>>
       ELSE IF AreaDefence(case_data)
         THEN /\ Respond("create_case", "bad_request", {"area_logic"},
                         case_data, 0, <<>>)
              /\ UNCHANGED <<pc, req>>
       ELSE /\ RoomForCase
            /\ pc' = [pc EXCEPT ![w] = "create_violation_case"]
            /\ req' = [req EXCEPT ![w] =
                         [NoReq EXCEPT !.op = "create_case", !.case_data = case_data,
                                       !.new_number = generate_case_number(cases, year)]]
            /\ response' = NoResponse
    /\ UNCHANGED <<year, cases, enforcement_actions, building_progresses, clock, linked>>
    /\ UNCHANGED side_tables

\* crud.create_violation_case: the insert and its commit
create_violation_case(w) ==
    /\ pc[w] = "create_violation_case"
    /\ IF DuplicateKeyword(req[w].case_data)
         THEN /\ Respond("create_case", "type_error", {"case_number"},
                         req[w].case_data, 0, req[w].new_number)
              /\ UNCHANGED cases
       ELSE IF UniqueViolation(cases, req[w].new_number)
         THEN /\ Respond("create_case", "conflict", {"case_number"},
                         req[w].case_data, 0, req[w].new_number)
              /\ UNCHANGED cases
         ELSE /\ cases' = InsertRow(cases,
                    [case_number |-> req[w].new_number,
                     status |-> req[w].case_data.status,
                     land_area |-> req[w].case_data.land_area,
                     building_area |-> req[w].case_data.building_area,
                     violation_area |-> req[w].case_data.violation_area,
                     geolocation_id |-> req[w].case_data.geolocation_id,
                     created_at |-> year])
              /\ Respond("create_case", "created", {}, req[w].case_data,
                         Len(cases) + 1, req[w].new_number)
    /\ pc' = [pc EXCEPT ![w] = "idle"]
    /\ req' = [req EXCEPT ![w] = NoReq]
    /\ UNCHANGED <<year, enforcement_actions, building_progresses, clock, linked>>
    /\ UNCHANGED side_tables

\* The common start of add_enforcement_action and add_violation_action
AddAction(w, op, table, case_id, status) ==
    /\ Idle(w)
    /\ IF ActionCaseMissing(cases, case_id)
         THEN /\ Respond(op, "not_found", {}, <<>>, case_id, <<>>)
              /\ UNCHANGED <<pc, req>>
         ELSE /\ RoomForEvent
              /\ pc' = [pc EXCEPT ![w] = "create_action"]
              /\ req' = [req EXCEPT ![w] =
                           [NoReq EXCEPT !.op = op, !.table = table,
                                         !.case_id = case_id, !.status = status]]
              /\ response' = NoResponse
    /\ UNCHANGED <<year, cases, enforcement_actions, building_progresses, clock, linked>>
    /\ UNCHANGED side_tables

add_enforcement_action(w, case_id, status) ==
    AddAction(w, "add_enforcement_action", "enforcement_actions", case_id, status)

add_violation_action(w, case_id, status) ==
    AddAction(w, "add_violation_action", "building_progresses", case_id, status)

\* The record is filed under the first case, whatever case the request names
ProgressRow_first(w) ==
    [case_id |-> 1, status_snapshot |-> req[w].status, created_at |-> clock]

ProgressRow(w) ==
    [case_id |-> req[w].case_id, status_snapshot |-> req[w].status, created_at |-> clock]

\* crud.create_enforcement_action: the insert and its commit
create_enforcement_action(w) ==
    /\ pc[w] = "create_action"
    /\ req[w].table = "enforcement_actions"
    /\ enforcement_actions' = InsertRow(enforcement_actions, ProgressRow(w))
    /\ clock' = clock + 1
    /\ pc' = [pc EXCEPT ![w] = "update_case_status"]
    /\ req' = [req EXCEPT ![w].rec = Len(enforcement_actions) + 1]
    /\ response' = NoResponse
    /\ UNCHANGED <<year, cases, building_progresses, linked>>
    /\ UNCHANGED side_tables

\* crud.create_violation_action: the insert and its commit
create_violation_action(w) ==
    /\ pc[w] = "create_action"
    /\ req[w].table = "building_progresses"
    /\ building_progresses' = InsertRow(building_progresses, ProgressRow(w))
    /\ clock' = clock + 1
    /\ pc' = [pc EXCEPT ![w] = "update_case_status"]
    /\ req' = [req EXCEPT ![w].rec = Len(building_progresses) + 1]
    /\ response' = NoResponse
    /\ UNCHANGED <<year, cases, enforcement_actions, linked>>
    /\ UNCHANGED side_tables

\* crud.update_case_status, then the handler returns the new record
update_case_status(w) ==
    /\ pc[w] = "update_case_status"
    /\ IF get_case(cases, req[w].case_id) # 0
         THEN cases' = StatusWrite(cases, req[w].case_id, req[w].status)
         ELSE UNCHANGED cases
    /\ linked' = linked \cup {<<req[w].table, req[w].rec>>}
    /\ Respond(req[w].op, "ok", {}, <<>>, req[w].case_id, req[w].rec)
    /\ pc' = [pc EXCEPT ![w] = "idle"]
    /\ req' = [req EXCEPT ![w] = NoReq]
    /\ UNCHANGED <<year, enforcement_actions, building_progresses, clock>>
    /\ UNCHANGED side_tables

\* A store call of a handler in flight raises (connection lost, statement
\* rejected): the exception propagates and the handler ends there.
StorageFailure(w) ==
    /\ ~Idle(w)
    /\ Respond(req[w].op, "storage_error", {}, <<>>, req[w].case_id, <<>>)
    /\ pc' = [pc EXCEPT ![w] = "idle"]
    /\ req' = [req EXCEPT ![w] = NoReq]
    /\ UNCHANGED <<year, cases, enforcement_actions, building_progresses, clock, linked>>
    /\ UNCHANGED side_tables

\* ViolationCase.enforcement_actions: the relationship's rows for a case
enforcement_actions_of(case_id) == RowsOfCase(enforcement_actions, case_id)

\* The building-progress relationship of a case, read like the one above
building_progresses_of(case_id) == RowsOfCase(building_progresses, case_id)

\* What case-detail retrieval loads for an existing case
CaseDetail(case_id) ==
    [id |-> case_id,
     status |-> cases[case_id].status,
     case_number |-> cases[case_id].case_number,
     enforcement_actions |-> enforcement_actions_of(case_id),
     building_progresses |-> building_progresses_of(case_id)]

\* A case id that references no case is answered like one that does, with nothing
get_case_detail_unchecked(w, case_id) ==
    /\ Idle(w)
    /\ Respond("get_case_detail", "ok", {}, <<>>, case_id,
               IF get_case(cases, case_id) = 0 THEN <<>> ELSE CaseDetail(case_id))
    /\ UNCHANGED <<year, cases, enforcement_actions, building_progresses, clock, pc,
                   req, linked>>
    /\ UNCHANGED side_tables

\* GET /api/cases/{case_id}
get_case_detail(w, case_id) ==
    /\ Idle(w)
    /\ IF get_case(cases, case_id) = 0
         THEN Respond("get_case_detail", "not_found", {}, <<>>, case_id, <<>>)
         ELSE Respond("get_case_detail", "ok", {}, <<>>, case_id, CaseDetail(case_id))
    /\ UNCHANGED <<year, cases, enforcement_actions, building_progresses, clock, pc,
                   req, linked>>
    /\ UNCHANGED side_tables

\* A file archive is stored for an existing case (the tests insert the row directly)
upload_archive(case_id, file_name) ==
    /\ Len(file_archives) < MaxArchives
    /\ case_id \in DOMAIN cases
    /\ file_archives' = InsertRow(file_archives,
                                  [case_id |-> case_id, file_name |-> file_name])
    /\ response' = NoResponse
    /\ UNCHANGED <<year, cases, enforcement_actions, building_progresses, clock, pc,
                   req, linked, geolocations, seeded>>

\* check_archive_status: not-found for a case id that references no case
CheckOutcome(cs, case_id) == IF get_case(cs, case_id) = 0 THEN "not_found" ELSE "ok"

\* The check records on the case that it was checked
check_archive_status_marks(w, case_id) ==
    /\ Idle(w)
    /\ Respond("check_archive_status", CheckOutcome(cases, case_id), {}, <<>>, case_id,
               IF get_case(cases, case_id) = 0 THEN <<>>
               ELSE ArchiveCheckResult(cases, file_archives, case_id))
    /\ cases' = StatusWrite(cases, case_id, "yijiancha")
    /\ UNCHANGED <<year, enforcement_actions, building_progresses, clock, pc,
                   req, linked, file_archives, geolocations, seeded>>

\* GET /api/cases/{case_id}/archive-check
check_archive_status(w, case_id) ==
    /\ Idle(w)
    /\ Respond("check_archive_status", CheckOutcome(cases, case_id), {}, <<>>, case_id,
               IF get_case(cases, case_id) = 0 THEN <<>>
               ELSE ArchiveCheckResult(cases, file_archives, case_id))
    /\ UNCHANGED <<year, cases, enforcement_actions, building_progresses, clock, pc,
                   req, linked, file_archives, geolocations, seeded>>

\* POST /api/cases/: the body is parsed into the creation schema, then create_case
create_new_case(w, payload) == create_case(w, ViolationCaseCreate(payload))

\* POST /api/locations/: crud.create_location, the insert and its commit
create_location(w, location) ==
    /\ Idle(w)
    /\ Len(geolocations) < MaxLocations
    /\ geolocations' = InsertRow(geolocations, location)
    /\ Respond("create_location", "created", {}, <<>>, Len(geolocations) + 1, location)
    /\ UNCHANGED <<year, cases, enforcement_actions, building_progresses, clock, pc,
                   req, linked, file_archives, seeded>>

\* The attributes of the ORM class Geolocation
GeolocationAttributes ==
    {"id", "address", "longitude", "latitude", "community", "address_number",
     "created_at", "case"}

\* ViolationCaseBrief of a case row
ViolationCaseBrief(cs, case_id) ==
    [id |-> case_id, case_number |-> cs[case_id].case_number,
     status |-> cs[case_id].status, created_at |-> cs[case_id].created_at]

RECURSIVE BriefsOf(_, _, _)
\* The brief records of the first n cases that reference a location, in row order
BriefsOf(cs, location_id, n) ==
    IF n = 0 THEN <<>>
    ELSE BriefsOf(cs, location_id, n - 1)
            \o (IF cs[n].geolocation_id = location_id
                  THEN <<ViolationCaseBrief(cs, n)>> ELSE <<>>)

\* GeolocationRead built from the attributes of a Geolocation object: a field
\* the object has no attribute for takes its default, cases = []
GeolocationRead(locs, cs, location_id) ==
    [id |-> location_id,
     address |-> locs[location_id].address,
     cases |-> IF "cases" \in GeolocationAttributes
                 THEN BriefsOf(cs, location_id, Len(cs)) ELSE <<>>]

\* GET /api/locations/{location_id}/history
get_location_history(w, location_id) ==
    /\ Idle(w)
    /\ IF location_id \notin DOMAIN geolocations
         THEN Respond("get_location_history", "not_found", {}, <<>>, location_id, <<>>)
         ELSE Respond("get_location_history", "ok", {}, <<>>, location_id,
                      GeolocationRead(geolocations, cases, location_id))
    /\ UNCHANGED <<year, cases, enforcement_actions, building_progresses, clock, pc,
                   req, linked, file_archives, geolocations, seeded>>

\* crud.get_cases: .offset(skip).limit(limit).all(), as row ids
get_cases(cs, skip, limit) ==
    [k \in 1..(IF Len(cs) - skip < limit
                 THEN (IF Len(cs) - skip < 0 THEN 0 ELSE Len(cs) - skip)
                 ELSE limit) |-> skip + k]

\* GET /api/cases/
read_cases(w, skip, limit) ==
    /\ Idle(w)
    /\ Respond("read_cases", "ok", {}, <<>>, 0,
               [k \in DOMAIN get_cases(cases, skip, limit) |->
                   ViolationCaseBrief(cases, get_cases(cases, skip, limit)[k])])
    /\ UNCHANGED <<year, cases, enforcement_actions, building_progresses, clock, pc,
                   req, linked, file_archives, geolocations, seeded>>

----------------------------------------------------------------------------
(* Specifications *)

\* The handlers of concurrent requests, step by step, within one year
Next ==
    \E w \in Workers :
        \/ \E case_data \in PlainCaseInputs : create_case(w, case_data)
        \/ create_violation_case(w)
        \/ \E case_id \in CaseIds(cases), status \in Snapshots :
               add_enforcement_action(w, case_id, status)
        \/ \E case_id \in CaseIds(cases), status \in Snapshots :
               add_violation_action(w, case_id, status)
        \/ create_enforcement_action(w)
        \/ create_violation_action(w)
        \/ update_case_status(w)
        \/ \E case_id \in CaseIds(cases) : get_case_detail(w, case_id)

Spec == Init /\ [][Next]_vars

\* The same, with store calls that may fail
NextFail ==
    \/ Next
    \/ \E w \in Workers : StorageFailure(w)

SpecFail == Init /\ [][NextFail]_vars

\* Requests handled one after another by one worker, none failing, over
\* several years, the cases created with or without a status of their own
SeqWorker == CHOOSE w \in Workers : TRUE

NextSeq ==
    \/ AllIdle /\ NewYear
    \/ \E case_data \in StatusCaseInputs : create_case(SeqWorker, case_data)
    \/ create_violation_case(SeqWorker)
    \/ \E case_id \in CaseIds(cases), status \in Snapshots :
           add_enforcement_action(SeqWorker, case_id, status)
    \/ \E case_id \in CaseIds(cases), status \in Snapshots :
           add_violation_action(SeqWorker, case_id, status)
    \/ create_enforcement_action(SeqWorker)
    \/ create_violation_action(SeqWorker)
    \/ update_case_status(SeqWorker)
    \/ \E case_id \in CaseIds(cases) : get_case_detail(SeqWorker, case_id)

SpecSeq == Init /\ [][NextSeq]_vars

\* Case creation alone: concurrent requests with every kind of area input
NextCreate ==
    \/ NewYear
    \/ \E w \in Workers :
        \/ \E case_data \in AreaCaseInputs : create_case(w, case_data)
        \/ create_violation_case(w)

SpecCreate == Init /\ [][NextCreate]_vars

\* The archive check as a function of the store: cases are created in every
\* stage, archives of every name are stored for them, and the check is called
NextCheck ==
    \/ \E case_data \in StageCaseInputs : create_case(SeqWorker, case_data)
    \/ create_violation_case(SeqWorker)
    \/ \E case_id \in DOMAIN cases, file_name \in FileNames :
           upload_archive(case_id, file_name)
    \/ \E case_id \in CaseIds(cases) : check_archive_status(SeqWorker, case_id)

SpecCheck == Init /\ [][NextCheck]_vars

\* The archive check beside the writes it depends on: one worker creates the
\* cases and appends enforcement actions, archives are stored, and every
\* worker reads (the check, the case detail) between any two steps of the writer
NextArchive ==
    \/ \E case_data \in PlainCaseInputs : create_case(SeqWorker, case_data)
    \/ create_violation_case(SeqWorker)
    \/ \E case_id \in CaseIds(cases), status \in Snapshots :
           add_enforcement_action(SeqWorker, case_id, status)
    \/ create_enforcement_action(SeqWorker)
    \/ update_case_status(SeqWorker)
    \/ \E case_id \in DOMAIN cases : upload_archive(case_id, DecisionFile)
    \/ \E w \in Workers, case_id \in CaseIds(cases) : check_archive_status(w, case_id)
    \/ \E w \in Workers, case_id \in CaseIds(cases) : get_case_detail(w, case_id)

SpecArchive == Init /\ [][NextArchive]_vars

\* Every operation, the requests handled one after another: locations are
\* registered, cases are created at them from bodies without a status, records
\* of both kinds are appended, and every read is called
NextFrame ==
    \/ \E location \in LocationInputs : create_location(SeqWorker, location)
    \/ \E payload \in UnsetStatusPayloads(geolocations) :
           create_new_case(SeqWorker, payload)
    \/ create_violation_case(SeqWorker)
    \/ \E case_id \in CaseIds(cases), status \in Snapshots :
           add_enforcement_action(SeqWorker, case_id, status)
    \/ \E case_id \in CaseIds(cases), status \in Snapshots :
           add_violation_action(SeqWorker, case_id, status)
    \/ create_enforcement_action(SeqWorker)
    \/ create_violation_action(SeqWorker)
    \/ update_case_status(SeqWorker)
    \/ \E case_id \in CaseIds(cases) : check_archive_status(SeqWorker, case_id)
    \/ \E case_id \in CaseIds(cases) : get_case_detail(SeqWorker, case_id)
    \/ \E page \in Pages : read_cases(SeqWorker, page[1], page[2])
    \/ \E location_id \in 1..(Len(geolocations) + 1) :
           get_location_history(SeqWorker, location_id)

SpecFrame == Init /\ [][NextFrame]_vars

\* Creation from request bodies that carry a case_number of the client's, and
\* from bodies that carry none
NextPlaceholder ==
    \/ NewYear
    \/ \E w \in Workers :
        \/ \E payload \in PlaceholderPayloads \cup {CaseCreate(<<2, 3, 1>>, Unset)} :
               create_new_case(w, payload)
        \/ create_violation_case(w)

SpecPlaceholder == Init /\ [][NextPlaceholder]_vars

\* Appends of both kinds to several cases that hold file archives, the
\* requests handled one after another
NextAppend ==
    \/ \E case_data \in PlainCaseInputs : create_case(SeqWorker, case_data)
    \/ create_violation_case(SeqWorker)
    \/ \E case_id \in DOMAIN cases : upload_archive(case_id, DecisionFile)
    \/ \E case_id \in CaseIds(cases), status \in Snapshots :
           add_enforcement_action(SeqWorker, case_id, status)
    \/ \E case_id \in CaseIds(cases), status \in Snapshots :
           add_violation_action(SeqWorker, case_id, status)
    \/ create_enforcement_action(SeqWorker)
    \/ create_violation_action(SeqWorker)
    \/ update_case_status(SeqWorker)

SpecAppend == Init /\ [][NextAppend]_vars

\* Numbering over stores that hold cases already: creations handled one after
\* another, over the turn of the year
NextNumbering ==
    \/ AllIdle /\ NewYear
    \/ \E case_data \in PlainCaseInputs : create_case(SeqWorker, case_data)
    \/ create_violation_case(SeqWorker)

SpecNumbering == InitNumbering /\ [][NextNumbering]_vars

----------------------------------------------------------------------------
(* Notions the claims use *)

AppendOps == {"add_enforcement_action", "add_violation_action"}

\* The progress records of a case, of both perspectives
EventsOf(case_id) ==
    {enforcement_actions[i] : i \in {j \in DOMAIN enforcement_actions :
                                        enforcement_actions[j].case_id = case_id}}
    \cup
    {building_progresses[i] : i \in {j \in DOMAIN building_progresses :
                                        building_progresses[j].case_id = case_id}}

\* The record appended last to a case that has records
LatestEvent(case_id) ==
    CHOOSE e \in EventsOf(case_id) :
        \A o \in EventsOf(case_id) : o.created_at <= e.created_at

\* The keys of all persisted progress records
EventKeys ==
    {<<"enforcement_actions", i>> : i \in DOMAIN enforcement_actions}
    \cup {<<"building_progresses", i>> : i \in DOMAIN building_progresses}

----------------------------------------------------------------------------
(* C1 *)

StatusFollowsLatest ==
    AllIdle =>
        \A c \in DOMAIN cases :
            EventsOf(c) # {} => cases[c].status = LatestEvent(c).status_snapshot

StatusGivenAtCreation ==
    (response.op = "create_case" /\ response.outcome = "created")
        => cases[response.case_id].status = response.case_data.status

StatusKeptUntilFirstAppend ==
    \A c \in DOMAIN cases :
        (EventsOf(c) = {} /\ EventsOf(c)' = {}) => cases'[c].status = cases[c].status

\* C1: when requests are handled one after another, the status of a case that has
\* progress records is the status_snapshot of the record appended to it last,
\* whichever table holds it; a new case has the status given at creation, and
\* keeps it as long as no record is appended to it.
C1_StatusIsLatestSnapshot ==
    /\ [](StatusFollowsLatest /\ StatusGivenAtCreation)
    /\ [][StatusKeptUntilFirstAppend]_vars

\* A case with a record in each table, the building-progress record the later
\* one and with another snapshot, and the status is that later snapshot.
C1_Witness ==
    /\ AllIdle
    /\ \E i \in DOMAIN enforcement_actions, j \in DOMAIN building_progresses :
        /\ enforcement_actions[i].case_id = building_progresses[j].case_id
        /\ enforcement_actions[i].created_at < building_progresses[j].created_at
        /\ enforcement_actions[i].status_snapshot # building_progresses[j].status_snapshot
        /\ cases[building_progresses[j].case_id].status
               = building_progresses[j].status_snapshot

----------------------------------------------------------------------------
(* C2 *)

\* C2: status linkage is atomic: whenever no handler is in flight, a progress
\* record is persisted if and only if its snapshot was written to its case.
C2_StatusLinkageAtomic ==
    AllIdle => EventKeys = linked

----------------------------------------------------------------------------
(* C3 *)

EventsReferenceCases ==
    /\ \A i \in DOMAIN enforcement_actions :
           enforcement_actions[i].case_id \in DOMAIN cases
    /\ \A i \in DOMAIN building_progresses :
           building_progresses[i].case_id \in DOMAIN cases

AppendNeedsCase ==
    /\ \A w \in Workers :
           pc[w] \in {"create_action", "update_case_status"}
               => req[w].case_id \in DOMAIN cases
    /\ (response.op \in AppendOps /\ response.outcome = "ok")
           => response.case_id \in DOMAIN cases

NotFoundChangesNothing ==
    (response'.op \in AppendOps /\ response'.outcome = "not_found")
        => /\ response'.case_id \notin DOMAIN cases
           /\ UNCHANGED <<cases, enforcement_actions, building_progresses, linked>>

\* C3: an append whose case_id names no case is answered not-found and changes
\* no table; no handler goes on to insert for a missing case, and every
\* persisted progress record references an existing case.
C3_AppendToMissingCase ==
    /\ [](EventsReferenceCases /\ AppendNeedsCase)
    /\ [][NotFoundChangesNothing]_vars

\* An append was just answered not-found while records of existing cases are kept.
C3_Witness ==
    /\ response.op = "add_enforcement_action"
    /\ response.outcome = "not_found"
    /\ Len(enforcement_actions) > 0

----------------------------------------------------------------------------
(* C4 *)

NumbersUnique ==
    \A i, j \in DOMAIN cases :
        cases[i].case_number = cases[j].case_number => i = j

ConflictOnPresentNumber ==
    (response.op = "create_case" /\ response.outcome = "conflict")
        => \E i \in DOMAIN cases : cases[i].case_number = response.body

ConflictPersistsNothing ==
    (response'.op = "create_case" /\ response'.outcome = "conflict")
        => UNCHANGED <<cases, enforcement_actions, building_progresses>>

CreatedIsNew ==
    (response'.op = "create_case" /\ response'.outcome = "created")
        => \A i \in DOMAIN cases : cases[i].case_number # response'.body

\* C4: under every interleaving of concurrent creations no two persisted cases
\* bear the same number; an insert of a number already present is answered
\* with a conflict and persists nothing.
C4_NumbersUnique ==
    /\ [](NumbersUnique /\ ConflictOnPresentNumber)
    /\ [][ConflictPersistsNothing /\ CreatedIsNew]_vars

\* Two creations raced to the same number: one is persisted, the other was just
\* answered with a conflict.
C4_Witness ==
    /\ response.op = "create_case"
    /\ response.outcome = "conflict"
    /\ Len(cases) = 1
    /\ cases[1].case_number = response.body

----------------------------------------------------------------------------
(* C5 *)

\* How many of the first n persisted cases were created in year y
CreatedIn(y, n) ==
    Cardinality({j \in 1..n : cases[j].created_at = y})

\* The year followed by the zero-padded sequence value i, for i below ten
NumberOf(y, i) == Digits(y) \o <<0, 0, 0, i>>

AssignedInOrder ==
    \A w \in Workers :
        pc[w] = "create_violation_case"
            => req[w].new_number = NumberOf(year, CreatedIn(year, Len(cases)) + 1)

PersistedInOrder ==
    \A i \in DOMAIN cases :
        cases[i].case_number = NumberOf(cases[i].created_at, CreatedIn(cases[i].created_at, i))

SequentialCreationSucceeds ==
    response.op = "create_case" => response.outcome = "created"

\* C5: when valid cases are created one after another, the i-th case created
\* in a year is assigned, and persisted with, the year followed by the 4-digit
\* zero-padded value i.
C5_SequentialNumbers ==
    AssignedInOrder /\ PersistedInOrder /\ SequentialCreationSucceeds

\* Two cases created in the same year, numbered 0001 and 0002 in that order.
C5_Witness ==
    /\ Len(cases) >= 2
    /\ cases[1].created_at = FirstYear
    /\ cases[2].created_at = FirstYear
    /\ cases[1].case_number = <<2, 0, 2, 5, 0, 0, 0, 1>>
    /\ cases[2].case_number = <<2, 0, 2, 5, 0, 0, 0, 2>>

----------------------------------------------------------------------------
(* C6 *)

NoCaseOfYear(y) ==
    \A i \in DOMAIN cases : SubSeq(cases[i].case_number, 1, 4) # Digits(y)

\* C6: when no persisted case has a number that starts with the current year,
\* the next case number is the year followed by 0001, whatever cases of other
\* years exist; a creation that scanned such a store holds that number.
C6_FirstNumberOfYear ==
    NoCaseOfYear(year) =>
        /\ generate_case_number(cases, year) = Digits(year) \o <<0, 0, 0, 1>>
        /\ \A w \in Workers :
               pc[w] = "create_violation_case"
                   => req[w].new_number = Digits(year) \o <<0, 0, 0, 1>>

\* Cases of the year before exist, none of the current year, and a creation
\* has just been assigned the current year's 0001.
C6_Witness ==
    /\ year = FirstYear + 1
    /\ Len(cases) >= 1
    /\ NoCaseOfYear(year)
    /\ \E w \in Workers :
        /\ pc[w] = "create_violation_case"
        /\ req[w].new_number = <<2, 0, 2, 6, 0, 0, 0, 1>>

----------------------------------------------------------------------------
(* C7 *)

\* Both areas are positive and the land area exceeds the building area
LandExceedsBuilding(d) ==
    d.land_area > 0 /\ d.building_area > 0 /\ d.land_area > d.building_area

NonNegative(d) ==
    d.land_area >= 0 /\ d.building_area >= 0 /\ d.violation_area >= 0

AreaInvariantPersisted ==
    \A i \in DOMAIN cases :
        (cases[i].land_area > 0 /\ cases[i].building_area > 0)
            => cases[i].land_area <= cases[i].building_area

AreaViolationRejected ==
    /\ (/\ response.op = "create_case"
        /\ NonNegative(response.case_data)
        /\ LandExceedsBuilding(response.case_data))
           => /\ response.outcome = "validation_error"
              /\ response.fields = {"area_logic"}
    /\ \A w \in Workers :
           pc[w] = "create_violation_case" => ~LandExceedsBuilding(req[w].case_data)

\* C7 as stated: every creation input whose land area and building area are
\* positive with the land area the larger is rejected with a validation
\* failure that mentions the area relationship.
C7_EveryViolationNamesAreas ==
    (response.op = "create_case" /\ LandExceedsBuilding(response.case_data))
        => /\ response.outcome = "validation_error"
           /\ "area_logic" \in response.fields

\* C7, amended: a creation input with no negative area whose land area and
\* building area are positive with the land area the larger is rejected by
\* input validation with the area relationship as the reason and never reaches
\* the store; every persisted case with both areas positive has
\* land_area <= building_area.
C7_AreaInvariant ==
    AreaInvariantPersisted /\ AreaViolationRejected

\* Such an input was just rejected, while a case with both areas positive is persisted.
C7_Witness ==
    /\ response.op = "create_case"
    /\ NonNegative(response.case_data)
    /\ LandExceedsBuilding(response.case_data)
    /\ response.outcome = "validation_error"
    /\ \E i \in DOMAIN cases : cases[i].land_area > 0 /\ cases[i].building_area > 0

----------------------------------------------------------------------------
(* C8 *)

\* C8: a creation input with a positive land area, a building area of zero
\* and no negative area is not rejected for its areas: neither input
\* validation nor the re-check before persistence refuses it.
C8_ZeroAreaExempt ==
    (/\ response.op = "create_case"
     /\ response.case_data.land_area > 0
     /\ response.case_data.building_area = 0
     /\ response.case_data.violation_area >= 0)
        => response.outcome \notin {"validation_error", "bad_request"}

----------------------------------------------------------------------------
(* C9 *)

NegativeFields(d) == {f \in AreaFields : d[f] < 0}

NegativeRejected ==
    /\ (response.op = "create_case" /\ NegativeFields(response.case_data) # {})
           => /\ response.outcome = "validation_error"
              /\ response.fields = NegativeFields(response.case_data)
    /\ \A w \in Workers :
           pc[w] = "create_violation_case" => NegativeFields(req[w].case_data) = {}
    /\ \A i \in DOMAIN cases : NegativeFields(cases[i]) = {}

RejectionPersistsNothing ==
    (response'.op = "create_case" /\ response'.outcome = "validation_error")
        => /\ UNCHANGED <<cases, enforcement_actions, building_progresses, pc, req>>
           /\ generate_case_number(cases', year') = generate_case_number(cases, year)

\* C9: a creation input with a negative land, building or violation area is
\* rejected with a validation error that names exactly the negative fields;
\* the rejection leaves every table and the next case number as they were, and
\* no persisted case has a negative area.
C9_NegativeAreaRejected ==
    /\ []NegativeRejected
    /\ [][RejectionPersistsNothing]_vars

\* An input with a negative violation area was just rejected, an earlier case is kept.
C9_Witness ==
    /\ response.op = "create_case"
    /\ response.outcome = "validation_error"
    /\ response.fields = {"violation_area"}
    /\ Len(cases) >= 1

----------------------------------------------------------------------------
(* C10 *)

\* seq holds exactly the rows of table that belong to the case, oldest first
RowsInAppendOrder(seq, table, case_id) ==
    /\ \A k \in DOMAIN seq : seq[k].case_id = case_id
    /\ {seq[k] : k \in DOMAIN seq}
           = {table[i] : i \in {j \in DOMAIN table : table[j].case_id = case_id}}
    /\ \A k, l \in DOMAIN seq : k < l => seq[k].created_at < seq[l].created_at

DetailHoldsBothLogs ==
    (response.op = "get_case_detail" /\ response.outcome = "ok")
        => /\ RowsInAppendOrder(response.body.enforcement_actions,
                                enforcement_actions, response.case_id)
           /\ RowsInAppendOrder(response.body.building_progresses,
                                building_progresses, response.case_id)

RecordsAppendOnly ==
    /\ \A i \in DOMAIN enforcement_actions :
           /\ i \in DOMAIN enforcement_actions'
           /\ enforcement_actions'[i] = enforcement_actions[i]
    /\ \A i \in DOMAIN building_progresses :
           /\ i \in DOMAIN building_progresses'
           /\ building_progresses'[i] = building_progresses[i]

----------------------------------------------------------------------------
(* C11 *)

\* The check that was just answered for an existing case
Checked == response.op = "check_archive_status" /\ response.outcome = "ok"

\* name = prefix \o doc \o suffix for some prefix and suffix, character by character
IsSubstring(doc, name) ==
    \E i, j \in 0..Len(name) :
        /\ i <= j
        /\ SubSeq(name, 1, i) \o doc \o SubSeq(name, j + 1, Len(name)) = name

\* The file names of the archive rows that belong to a case
FileNamesOf(case_id) ==
    {file_archives[k].file_name :
        k \in {r \in DOMAIN file_archives : file_archives[r].case_id = case_id}}

\* The required names of a stage that no file of the case contains
Unsatisfied(stage, case_id) ==
    IF stage \in DOMAIN REQUIRED_DOC_RULES
      THEN {REQUIRED_DOC_RULES[stage][k] :
               k \in {r \in DOMAIN REQUIRED_DOC_RULES[stage] :
                        \A name \in FileNamesOf(case_id) :
                            ~IsSubstring(REQUIRED_DOC_RULES[stage][r], name)}}
      ELSE {}

\* seq lists names of the rule of a stage, each once, in the order the rule declares
InDeclaredOrder(seq, stage) ==
    \A k, l \in DOMAIN seq :
        k < l => \E m, n \in DOMAIN REQUIRED_DOC_RULES[stage] :
                    /\ m < n
                    /\ REQUIRED_DOC_RULES[stage][m] = seq[k]
                    /\ REQUIRED_DOC_RULES[stage][n] = seq[l]

MissingAreTheUnsatisfied ==
    Checked =>
        LET missing == response.body.missing_docs
            stage == cases[response.case_id].status
        IN  /\ {missing[k] : k \in DOMAIN missing} = Unsatisfied(stage, response.case_id)
            /\ Len(missing) = Cardinality(Unsatisfied(stage, response.case_id))
            /\ InDeclaredOrder(missing, stage)
            /\ response.body.is_compliant = (missing = <<>>)

\* The example of the forced-demolition stage: the pictures are uploaded, the record is not
PicturesOnlyMissesRecord ==
    (/\ Checked
     /\ cases[response.case_id].status = "qiangzhichaichu"
     /\ FileNamesOf(response.case_id) = {<<"e", "q", "c", "t", "j">>})
        => response.body.missing_docs = <<XianChangBiLu>>

\* C11: the archive check reports as missing exactly the required names of the
\* case's current stage that no file archive of that case contains as a
\* case-sensitive substring, in the order the rule table declares them;
\* is_compliant is true exactly when none is missing; the files of other cases
\* satisfy nothing.
C11_MissingDocs ==
    MissingAreTheUnsatisfied /\ PicturesOnlyMissesRecord

\* A case in the forced-demolition stage whose only file holds the pictures is
\* reported to miss the record, while another case holds a file with the record.
C11_Witness ==
    /\ Checked
    /\ cases[response.case_id].status = "qiangzhichaichu"
    /\ response.body.missing_docs = <<XianChangBiLu>>
    /\ ~response.body.is_compliant
    /\ FileNamesOf(response.case_id) = {<<"e", "q", "c", "t", "j">>}
    /\ \E k \in DOMAIN file_archives :
        /\ file_archives[k].case_id # response.case_id
        /\ file_archives[k].file_name = <<"y", "q", "c", "b", "p">>

----------------------------------------------------------------------------
(* C12 *)

\* C12: the archive check of a case whose current status is no key of the rule
\* table (the default status of creation, a snapshot label without a rule)
\* answers is_compliant = TRUE and no missing document, whatever files the
\* case has.
C12_NoRuleIsCompliant ==
    (Checked /\ cases[response.case_id].status \notin DOMAIN REQUIRED_DOC_RULES)
        => /\ response.body.is_compliant
           /\ response.body.missing_docs = <<>>

\* A case was appended a snapshot label that has no rule, has a file, and is
\* found compliant; another case, still in the default status, has no file.
C12_Witness ==
    /\ Checked
    /\ cases[response.case_id].status = "yezhuqiangjian"
    /\ FileNamesOf(response.case_id) # {}
    /\ response.body.is_compliant
    /\ \E c \in DOMAIN cases : cases[c].status = DefaultStatus /\ FileNamesOf(c) = {}

----------------------------------------------------------------------------
(* C13 *)

\* C13: the archive check evaluates the status the case has when it is called:
\* current_stage is the case's status, which after the appends made to the
\* case (none of them in flight) is the status_snapshot of the record appended
\* last, and is_compliant is decided by the rule of that stage.
C13_CheckUsesLatestStatus ==
    Checked =>
        /\ response.body.current_stage = cases[response.case_id].status
        /\ (Idle(SeqWorker) /\ EventsOf(response.case_id) # {})
               => response.body.current_stage
                      = LatestEvent(response.case_id).status_snapshot
        /\ response.body.is_compliant
               = (Unsatisfied(response.body.current_stage, response.case_id) = {})

\* A case without files was appended a snapshot without a rule and then the
\* stage that requires the decision: compliant until that last append, the
\* check now finds it non-compliant.
C13_Witness ==
    /\ Checked
    /\ Idle(SeqWorker)
    /\ FileNamesOf(response.case_id) = {}
    /\ Cardinality(EventsOf(response.case_id)) = 2
    /\ \E e \in EventsOf(response.case_id) :
           e.status_snapshot = "yezhuqiangjian" /\ e # LatestEvent(response.case_id)
    /\ response.body.current_stage = "xianqichaichu"
    /\ ~response.body.is_compliant
    /\ response.body.missing_docs = <<ZeLingJueDingShu>>

----------------------------------------------------------------------------
(* C14 *)

\* The step is a call of the archive check that found the case
CheckStep == response'.op = "check_archive_status" /\ response'.outcome = "ok"

CheckWritesNothing ==
    CheckStep =>
        UNCHANGED <<year, cases, enforcement_actions, building_progresses, clock,
                    pc, req, linked, file_archives, geolocations, seeded>>

CheckReadsCurrentStatus ==
    CheckStep =>
        /\ response'.case_id \in DOMAIN cases
        /\ response'.body.current_stage = cases[response'.case_id].status

RepeatedCheckAgrees ==
    (Checked /\ CheckStep /\ response'.case_id = response.case_id)
        => response'.body = response.body

\* C14: the archive check is a pure read: a call changes no case, no progress
\* record, no file archive and no handler in flight; its current_stage is the
\* status the case has at the moment of the call, also between the two store
\* writes of a concurrent append; two calls on the same case with no step in
\* between return the same result.
C14_CheckIsPureRead ==
    [][CheckWritesNothing /\ CheckReadsCurrentStatus /\ RepeatedCheckAgrees]_vars

\* The check was called between the insert and the status update of an append
\* to the same case: it reports the status the case still has, not the
\* snapshot of the record already inserted.
C14_Witness ==
    /\ Checked
    /\ \E w \in Workers :
        /\ pc[w] = "update_case_status"
        /\ req[w].case_id = response.case_id
        /\ req[w].status # response.body.current_stage
        /\ response.body.current_stage = cases[response.case_id].status

----------------------------------------------------------------------------
(* C15 *)

\* The step is the status update of an append to case c
LinkageStep(c) ==
    \E w \in Workers :
        /\ pc[w] = "update_case_status"
        /\ pc'[w] = "idle"
        /\ req[w].case_id = c
        /\ cases'[c] = [cases[c] EXCEPT !.status = req[w].status]

OnlyLinkageChangesCases ==
    \A c \in DOMAIN cases :
        /\ c \in DOMAIN cases'
        /\ cases'[c] = cases[c] \/ LinkageStep(c)

ReadOps ==
    {"get_case_detail", "read_cases", "get_location_history", "check_archive_status"}

ReadsAndLocationsKeepCases ==
    response'.op \in ReadOps \cup {"create_location"} => cases' = cases

CreationAddsOneCase ==
    (response'.op = "create_case" /\ response'.outcome = "created")
        => /\ Len(cases') = Len(cases) + 1
           /\ \A c \in DOMAIN cases : cases'[c] = cases[c]

\* C15: a persisted case changes only in the status update of an append to
\* that case, and only in its status; the creation of a case adds one row and
\* leaves every other case as it was; the creation of a location, case
\* detail, the case list, location history and the archive check change no
\* case.
C15_StatusChangedOnlyByLinkage ==
    [][OnlyLinkageChangesCases /\ ReadsAndLocationsKeepCases /\ CreationAddsOneCase]_vars

\* An append has just set the status of the first case; the second case, created
\* before that append, still has the status of its creation.
C15_Witness ==
    /\ Len(cases) = 2
    /\ response.op \in AppendOps
    /\ response.outcome = "ok"
    /\ response.case_id = 1
    /\ cases[1].status \in Snapshots
    /\ EventsOf(2) = {}
    /\ cases[2].status = DefaultStatus

----------------------------------------------------------------------------
(* C16 *)

CreatedWithDefault ==
    (response.op = "create_case" /\ response.outcome = "created")
        => /\ response.case_data.status = DefaultStatus
           /\ cases[response.case_id].status = DefaultStatus

DefaultUntilFirstRecord ==
    \A c \in DOMAIN cases : EventsOf(c) = {} => cases[c].status = DefaultStatus

\* C16: where every case is created from a request body without a status, a
\* case has the default status "jinxingzhong" when its creation returns, and
\* has it in every later state in which no progress record of it is persisted.
C16_DefaultStatus ==
    CreatedWithDefault /\ DefaultUntilFirstRecord

\* A case created without a status has just been returned with the default
\* status, while an older case, appended to since, has moved on from it.
C16_Witness ==
    /\ response.op = "create_case"
    /\ response.outcome = "created"
    /\ response.case_id = 2
    /\ cases[2].status = DefaultStatus
    /\ EventsOf(1) # {}
    /\ cases[1].status \in Snapshots

----------------------------------------------------------------------------
(* C17 *)

\* The creation was made from a body that carries a case_number of the client's
ClientNumberSent ==
    response.op = "create_case" /\ response.case_data.case_number # <<>>

\* C17: a case_number in the creation input is a placeholder: the creation is
\* not failed for it (it ends created, or in the conflict of a numbering
\* race), and the number persisted is the one the numbering assigned, never
\* the client's.
C17_ClientNumberOverwritten ==
    /\ ClientNumberSent => response.outcome \in {"created", "conflict"}
    /\ (ClientNumberSent /\ response.outcome = "created")
           => cases[response.case_id].case_number = response.body
    /\ \A c \in DOMAIN cases :
           cases[c].case_number
               = Digits(cases[c].created_at) \o SubSeq(cases[c].case_number, 5, 8)

----------------------------------------------------------------------------
(* C18 *)

\* The cases whose location reference is the location
CasesAt(location_id) ==
    {c \in DOMAIN cases : cases[c].geolocation_id = location_id}

SecondCaseAtLocationKept ==
    (response.op = "create_case" /\ response.outcome = "created" /\ response.case_id > 1)
        => \A c \in 1..(response.case_id - 1) : c \in DOMAIN cases

HistoryListsEveryCase ==
    (response.op = "get_location_history" /\ response.outcome = "ok")
        => LET listed == response.body.cases
           IN  /\ {listed[k].id : k \in DOMAIN listed} = CasesAt(response.case_id)
               /\ Len(listed) = Cardinality(CasesAt(response.case_id))
               /\ \A k \in DOMAIN listed :
                      /\ listed[k].case_number = cases[listed[k].id].case_number
                      /\ listed[k].status = cases[listed[k].id].status
                      /\ listed[k].created_at = cases[listed[k].id].created_at

\* C18: a location may be referenced by any number of cases: a further case
\* created at a location that has cases is persisted beside them, and the
\* history of a location lists every case that references it, once each, as
\* a brief record of the case.
C18_LocationHistory ==
    SecondCaseAtLocationKept /\ HistoryListsEveryCase

----------------------------------------------------------------------------
(* C19 *)

CaseReads == {"get_case_detail", "check_archive_status"}

ReadOfMissingCaseNotFound ==
    response.op \in CaseReads =>
        /\ response.outcome = (IF response.case_id \in DOMAIN cases THEN "ok" ELSE "not_found")
        /\ response.outcome = "not_found" => response.body = <<>>

NotFoundReadChangesNothing ==
    (response'.op \in CaseReads /\ response'.outcome = "not_found")
        => UNCHANGED <<year, cases, enforcement_actions, building_progresses, clock,
                       pc, req, linked, file_archives, geolocations, seeded>>

\* C19: case detail and the archive check, called with a case id that
\* references no case, are answered not-found with no result, and the call
\* changes no table and no handler in flight; they are answered ok only for
\* an existing case.
C19_ReadOfMissingCase ==
    /\ []ReadOfMissingCaseNotFound
    /\ [][NotFoundReadChangesNothing]_vars

\* The archive check of a missing case id was just answered not-found while a
\* case with a file and a progress record exists.
C19_Witness ==
    /\ response.op = "check_archive_status"
    /\ response.outcome = "not_found"
    /\ response.case_id \notin DOMAIN cases
    /\ Len(cases) >= 1
    /\ Len(file_archives) >= 1
    /\ Len(enforcement_actions) >= 1

----------------------------------------------------------------------------
(* C20 *)

\* Two creations in flight hold the same number: both scanned before either inserted
Racing(w, v) ==
    /\ w # v
    /\ pc[w] = "create_violation_case"
    /\ pc[v] = "create_violation_case"
    /\ req[w].new_number = req[v].new_number

RowsNumbered(cs, n) == {i \in DOMAIN cs : cs[i].case_number = n}

\* The insert of worker w is the step taken
InsertStep(w) == pc[w] = "create_violation_case" /\ pc'[w] = "idle"

RaceHasOneWinner ==
    \A w, v \in Workers :
        (Racing(w, v) /\ InsertStep(w)) =>
            IF RowsNumbered(cases, req[w].new_number) = {}
              THEN /\ response'.outcome = "created"
                   /\ Cardinality(RowsNumbered(cases', req[v].new_number)) = 1
              ELSE /\ response'.outcome = "conflict"
                   /\ cases' = cases

SecondInsertConflicts ==
    \A w \in Workers :
        (InsertStep(w) /\ RowsNumbered(cases, req[w].new_number) # {})
            => /\ response'.outcome = "conflict"
               /\ response'.body = req[w].new_number
               /\ cases' = cases

\* C20: numbering is not exclusive: two creations of the same year can both
\* scan before either inserts and hold the same number (the witness); of two
\* such creations the first to insert succeeds and leaves exactly one row with
\* that number, and an insert of a number already present is answered with a
\* conflict and adds no row.
C20_RaceOneWinner ==
    [][RaceHasOneWinner /\ SecondInsertConflicts]_vars

\* Both workers have scanned the same store and hold the same number, neither
\* has inserted yet.
C20_Witness ==
    /\ \E w, v \in Workers : Racing(w, v)
    /\ \A w \in Workers : req[w].new_number = generate_case_number(cases, year)
    /\ RowsNumbered(cases, generate_case_number(cases, year)) = {}

----------------------------------------------------------------------------
(* C21 *)

\* The persisted numbers that start with the four digits of year y
SameYearNumbers(y) ==
    {cases[i].case_number : i \in {j \in DOMAIN cases :
        /\ Len(cases[j].case_number) >= 4
        /\ \A k \in 1..4 : cases[j].case_number[k] = (y \div (10 ^ (4 - k))) % 10}}

\* Every number of the year has the year and four digits
FixedWidth(y) == \A n \in SameYearNumbers(y) : Len(n) = 8

\* The sequence part of such a number, as an integer
SeqValue(n) == n[5] * 1000 + n[6] * 100 + n[7] * 10 + n[8]

\* The greatest sequence value among the numbers of year y
MaxSeq(y) ==
    CHOOSE m \in {SeqValue(n) : n \in SameYearNumbers(y)} :
        \A n \in SameYearNumbers(y) : SeqValue(n) <= m

\* v written with at least four digits, for v below 100000
PaddedSeq(v) ==
    IF v < 10000
      THEN <<v \div 1000, (v \div 100) % 10, (v \div 10) % 10, v % 10>>
      ELSE <<v \div 10000, (v \div 1000) % 10, (v \div 100) % 10, (v \div 10) % 10, v % 10>>

\* The number that follows the greatest number of year y
MaxPlusOne(y) ==
    <<y \div 1000, (y \div 100) % 10, (y \div 10) % 10, y % 10>>
        \o PaddedSeq(MaxSeq(y) + 1)

NextIsMaxPlusOne ==
    (SameYearNumbers(year) # {} /\ FixedWidth(year)) =>
        /\ generate_case_number(cases, year) = MaxPlusOne(year)
        /\ \A w \in Workers :
               pc[w] = "create_violation_case" => req[w].new_number = MaxPlusOne(year)

GapsNotFilled ==
    \A w \in Workers :
        (/\ pc[w] = "create_violation_case"
         /\ SameYearNumbers(year) = {<<2, 0, 2, 5, 0, 0, 0, 1>>, <<2, 0, 2, 5, 0, 0, 0, 5>>})
            => req[w].new_number = <<2, 0, 2, 5, 0, 0, 0, 6>>

----------------------------------------------------------------------------
(* C22 *)

\* The greatest sequence value of the current year is 9999
LastOfFourDigits ==
    /\ SameYearNumbers(year) # {}
    /\ FixedWidth(year)
    /\ MaxSeq(year) = 9999

\* The year followed by 10000
FiveDigitNumber(y) ==
    <<y \div 1000, (y \div 100) % 10, (y \div 10) % 10, y % 10>> \o <<1, 0, 0, 0, 0>>

NextAfter9999 ==
    LastOfFourDigits =>
        /\ generate_case_number(cases, year) = FiveDigitNumber(year)
        /\ \A w \in Workers :
               pc[w] = "create_violation_case"
                   => req[w].new_number = FiveDigitNumber(year)

FiveDigitsPersisted ==
    \A w \in Workers :
        (LastOfFourDigits /\ pc[w] = "create_violation_case" /\ pc'[w] = "idle")
            => /\ response'.outcome = "created"
               /\ Len(cases') = Len(cases) + 1
               /\ cases'[Len(cases')].case_number = FiveDigitNumber(year)
               /\ SubSeq(cases', 1, Len(cases)) = cases

----------------------------------------------------------------------------
(* C23 *)

\* The sequence part of a number of four or of five sequence digits, as an integer
SeqValueOf(n) ==
    IF Len(n) = 8 THEN SeqValue(n)
    ELSE n[5] * 10000 + n[6] * 1000 + n[7] * 100 + n[8] * 10 + n[9]

PersistedNumbers == {cases[i].case_number : i \in DOMAIN cases}

NextNumberIsNew ==
    generate_case_number(cases, year) \notin PersistedNumbers

SelectedIsNumericMaximum ==
    SameYearNumbers(year) # {} =>
        \A n \in SameYearNumbers(year) :
            SeqValueOf(n) <= SeqValueOf(LastNumber(SameYearNumbers(year)))

NextExceedsEveryNumber ==
    \A n \in SameYearNumbers(year) :
        SeqValueOf(n) < SeqValueOf(generate_case_number(cases, year))

NoSequentialConflict ==
    response.op = "create_case" => response.outcome # "conflict"

\* C23: when creations are handled one after another, in every reachable store
\* the next case number is not a persisted one: the same-year number that is
\* the greatest in the order of strings is the greatest as a number too, the
\* next number exceeds every same-year number, and no creation ends in a
\* number conflict.
C23_SequentialNumberIsNew ==
    /\ NextNumberIsNew
    /\ SelectedIsNumericMaximum
    /\ NextExceedsEveryNumber
    /\ NoSequentialConflict

----------------------------------------------------------------------------
(* C24 *)

\* The records of a case that were inserted before its last one and bear
\* another snapshot than the last
EarlierEvents(case_id) ==
    {e \in EventsOf(case_id) :
        /\ e.created_at < LatestEvent(case_id).created_at
        /\ e.status_snapshot # LatestEvent(case_id).status_snapshot}

LastInsertedWins ==
    AllIdle =>
        \A c \in DOMAIN cases :
            EventsOf(c) # {} => cases[c].status = LatestEvent(c).status_snapshot

NoEarlierSnapshotRemains ==
    AllIdle =>
        \A c \in DOMAIN cases :
            \A e \in EarlierEvents(c) : cases[c].status # e.status_snapshot

\* C24: when appends to one case are handled concurrently, their inserts and
\* their status writes interleaving, then once every call has completed the
\* status of the case is the status_snapshot of the record inserted last, and
\* never the snapshot of a record inserted earlier.
C24_LastInsertedWins ==
    LastInsertedWins /\ NoEarlierSnapshotRemains

----------------------------------------------------------------------------
(* C25 *)

\* The steps of an append of worker w: its start, its insert, its status write
AppendStarts(w) == pc[w] = "idle" /\ pc'[w] = "create_action"
AppendInserts(w) == pc[w] = "create_action" /\ pc'[w] = "update_case_status"
AppendLinks(w) == pc[w] = "update_case_status" /\ pc'[w] = "idle"

\* table' is table with one more record, of case c
OneRecordAdded(table, c) ==
    /\ Len(table') = Len(table) + 1
    /\ SubSeq(table', 1, Len(table)) = table
    /\ table'[Len(table')].case_id = c

StartWritesNothing ==
    \A w \in Workers :
        AppendStarts(w) =>
            UNCHANGED <<cases, enforcement_actions, building_progresses, file_archives>>

InsertAddsOneRecordToOneLog ==
    \A w \in Workers :
        AppendInserts(w) =>
            /\ UNCHANGED <<cases, file_archives>>
            /\ \/ /\ OneRecordAdded(enforcement_actions, req[w].case_id)
                  /\ UNCHANGED building_progresses
               \/ /\ OneRecordAdded(building_progresses, req[w].case_id)
                  /\ UNCHANGED enforcement_actions

LinkOverwritesOnlyTheStatus ==
    \A w \in Workers :
        AppendLinks(w) =>
            /\ UNCHANGED <<enforcement_actions, building_progresses, file_archives>>
            /\ DOMAIN cases' = DOMAIN cases
            /\ \A i \in DOMAIN cases :
                   /\ i # req[w].case_id => cases'[i] = cases[i]
                   /\ \A f \in DOMAIN cases[i] \ {"status"} : cases'[i][f] = cases[i][f]
            /\ cases'[req[w].case_id].status = req[w].status

\* C25: an append to a case adds one record to one of that case's two logs and
\* overwrites the status of that case only: the status, the enforcement
\* actions, the building-progress entries and the file archives of every other
\* case, the other log of the case, its file archives and its business number
\* are unchanged by every step of the append.
C25_AppendFrame ==
    [][StartWritesNothing /\ InsertAddsOneRecordToOneLog /\ LinkOverwritesOnlyTheStatus]_vars

\* An append to the second case has just completed: its building-progress log
\* holds the record and its status the snapshot, while the first case keeps
\* another status, a record of its own and a file archive.
C25_Witness ==
    /\ response.op = "add_violation_action"
    /\ response.outcome = "ok"
    /\ response.case_id = 2
    /\ Len(cases) = 2
    /\ cases[1].status # cases[2].status
    /\ \E i \in DOMAIN enforcement_actions : enforcement_actions[i].case_id = 1
    /\ \E i \in DOMAIN building_progresses : building_progresses[i].case_id = 2
    /\ \E i \in DOMAIN file_archives : file_archives[i].case_id = 1

====
